---- MODULE Spec2Model ----
(***************************************************************************)
(* DHTReader (src/sensors/rpi-nerve/DHT.h, DHT.cpp): one reader object,    *)
(* the single-wire line it polls, and the steps of read().                 *)
(*                                                                         *)
(* Representation.                                                         *)
(*  - temp_ and humidity_ are C floats.  Every value the code stores is    *)
(*    n/10.0f for an integer n (or an integer byte), so the model keeps    *)
(*    the exact integer number of TENTHS: 20.3 is 203, a DHT11 byte 25 is  *)
(*    250.  x/10.0f is monotone in x and 0 and 1000 map to 0.0f and        *)
(*    100.0f exactly, so the range tests compare the same way; -0.0f       *)
(*    (sign bit set, magnitude 0) compares equal to 0.0f and is 0 here.    *)
(*  - clockScale_ is a float; the model keeps it in hundredths (1.0f is    *)
(*    100), and the products N * clockScale_ are truncated as the          *)
(*    conversions to uint32_t / int truncate them.                         *)
(*  - The line is a level and the poll counts for which it will hold each  *)
(*    successive level; when the list is empty the level never changes.    *)
(*  - assert() aborts the process unless the program was compiled with     *)
(*    NDEBUG.  Which of the two the build is stays open ("any") until an   *)
(*    assertion is evaluated whose condition is false; the run then either *)
(*    aborts or goes on as an NDEBUG build for good.                       *)
(***************************************************************************)
EXTENDS Integers, Sequences, FiniteSets, TLC

VARIABLES
    type_,          \* const DHTType type_
    clockScale_,    \* const float clockScale_, in hundredths
    timings_,       \* uint16_t timings_[NumTimings]
    data_,          \* uint8_t data_[5]
    lastState_,     \* bool lastState_
    temp_,          \* float temp_, in tenths
    humidity_,      \* float humidity_, in tenths
    readCount_,     \* uint32_t readCount_
    failureCount_,  \* uint32_t failureCount_
    pc,             \* position inside read(); "idle" between calls
    i,              \* loop index of the capture loop in readTimings()
    count,          \* last poll count returned by a wait
    success,        \* the local `success` of read(), its return value
    err,            \* which diagnostic the failing stage printed
    sensor,         \* what the device on the pin does during this call
    line,           \* the line as the pin sees it from now on
    lastGood,       \* history: the Reading decoded by the latest call that returned true
    typeName,       \* the --dht-type string handed to TypeFromString
    build,          \* "any" until a false assertion was survived, then "ndebug"
    pinMode,        \* direction of the pin: "in" or "out"
    ops,            \* the GPIO writes, mode changes and sleeps of this call, in order
    published,      \* arguments of updateTempAndHumidity in this loop iteration
    \* MotionDetector (MotionDetector.h, MotionDetector.cpp) and its use in mainloop
    state_,         \* bool state_
    newState,       \* the local newState of waitForMotion
    total,          \* the local total of waitForMotion, in microseconds
    motionResult,   \* what waitForMotion returned
    mpc,            \* position of the main loop around waitForMotion
    moves,          \* arguments of detectedMovement so far, in order
    \* Network (src/oh_zwave/src/network.h, network.cpp)
    done,           \* bool done
    failed,         \* bool failed
    home_id,        \* uint32_t home_id
    nodes,          \* nodes: node id -> number of values pushed
    lock,           \* owner of std::mutex lock: "free", "init" or "handler"
    watching,       \* InitHandler is registered with the Manager
    driver,         \* AddDriver was called
    ipc,            \* position of the thread inside init()
    woken,          \* notify_all reached the thread blocked in guard_done.wait
    initResult,     \* what init() returned
    hpc,            \* position of the notification thread inside InitHandler
    note,           \* the notification being delivered
    handled         \* history: types of the notifications handled so far

dht == <<type_, clockScale_, timings_, data_, lastState_, temp_, humidity_,
          readCount_, failureCount_, pc, i, count, success, err, sensor, line,
          lastGood, typeName, build, pinMode, ops, published>>

motion == <<state_, newState, total, motionResult, mpc, moves>>

zwave == <<done, failed, home_id, nodes, lock, watching, driver, ipc, woken, initResult,
           hpc, note, handled>>

vars == <<dht, motion, zwave>>

----------------------------------------------------------------------------
(* Program constants *)

NumTimings == 80
TimeoutCycles == 100000
AckTimeout == 200000
BaseCutoff == 180
BitSync == 200
ByteSync == 250
UInt16 == 65536
TriggerHighMicros == 500000
TriggerLowMicros == 20000
MotionWaitMicros == 3000000
MotionPollMicros == 100000

(* Bounds of the model *)

MaxReads == 2
MaxMoves == 3
MaxNotes == 3

DHTTypes == {"DHT11", "DHT22", "AM2302"}
ClockScales == {50, 100}

\* Strings tried as --dht-type, and what a DHTType variable may hold after
\* TypeFromString ran off its end.
TypeNames == DHTTypes \cup {"dht11"}
IndeterminateTypes == DHTTypes \cup {"invalid"}

----------------------------------------------------------------------------
(* Scaled thresholds (DHT.h:49-52) *)

timeoutCycles(scale) == (TimeoutCycles * scale) \div 100
bitSyncDelay(scale) == (BitSync * scale) \div 100
byteSyncDelay(scale) == (ByteSync * scale) \div 100
lowHighCutoff(scale) == (BaseCutoff * scale) \div 100

----------------------------------------------------------------------------
(* The line *)

Zeros(n) == [k \in 1..n |-> 0]

\* Bit j (0..39) of a 5-byte frame as the device sends it: most significant
\* bit of byte 0 first.
FrameBit(frame, j) == (frame[(j \div 8) + 1] \div (2 ^ (7 - (j % 8)))) % 2

\* Poll counts of the low and high data pulses (DHT.h:34-39, and the two
\* counts next to the cut-off).
LowPulse(prof, scale) ==
    IF prof = "nominal" THEN (95 * scale) \div 100 ELSE lowHighCutoff(scale)
HighPulse(prof, scale) ==
    IF prof = "nominal" THEN (265 * scale) \div 100 ELSE lowHighCutoff(scale) + 1

\* The 80 pulses of one frame: before each bit a low sync pulse, then a high
\* pulse whose length is the bit.
FramePulses(frame, prof, scale) ==
    [k \in 1..NumTimings |->
        IF k % 2 = 1
        THEN IF k > 1 /\ (k - 1) % 16 = 0 THEN byteSyncDelay(scale)
                                          ELSE bitSyncDelay(scale)
        ELSE IF FrameBit(frame, (k \div 2) - 1) = 1 THEN HighPulse(prof, scale)
                                                    ELSE LowPulse(prof, scale)]

\* A responding device: the line idles high, then the acknowledgement (low,
\* high), then the frame.
LeadRuns(scale) == <<(40 * scale) \div 100, (300 * scale) \div 100, (300 * scale) \div 100>>

FullCut == NumTimings + 3

\* The line at the moment the pin is switched to input.  The device goes
\* silent after s.cut level changes, leaving the line wherever it is.
LineOf(s, scale) ==
    [level |-> s.level,
     runs  |-> SubSeq(LeadRuns(scale) \o FramePulses(s.frame, s.prof, scale), 1, s.cut)]

\* bcm2835_gpio_lev polled until the line is at `state` or `bound` polls have
\* missed: the number of misses (DHT.cpp:21-23, 38-41).
WaitPolls(ln, state, bound) ==
    IF ln.level = state THEN 0
    ELSE IF ln.runs = <<>> THEN bound
    ELSE IF Head(ln.runs) < bound THEN Head(ln.runs)
    ELSE bound

LineAfterWait(ln, state, bound) ==
    IF ln.level = state THEN ln
    ELSE IF ln.runs = <<>> THEN ln
    ELSE IF Head(ln.runs) < bound
         THEN [level |-> ~ln.level, runs |-> Tail(ln.runs)]
         ELSE [ln EXCEPT !.runs[1] = @ - bound]

waitForState(ln, state, scale) == WaitPolls(ln, state, timeoutCycles(scale))

----------------------------------------------------------------------------
(* What the device may send *)

CheckSumOf(b) == (b[1] + b[2] + b[3] + b[4]) % 256

FlipBit(b, k) == IF (b \div (2 ^ k)) % 2 = 1 THEN b - 2 ^ k ELSE b + 2 ^ k

WithCheck(b) == b \o <<CheckSumOf(b)>>

ZeroFrame == <<0, 0, 0, 0, 0>>
OnesFrame == <<255, 255, 255, 255, 255>>
AltFrame == <<170, 85, 170, 85, 170>>
Ex22Frame == <<1, 244, 0, 203, 192>>
Ex11Frame == <<50, 0, 25, 0, 75>>

\* The first four bytes of the frames sent with a matching check byte.
Payloads ==
    { <<0, 0, 0, 0>>, <<255, 255, 255, 255>>, <<170, 85, 170, 85>>,
      <<1, 244, 0, 203>>,       \* humidity 50.0, temperature 20.3
      <<50, 0, 25, 0>>,         \* DHT11: humidity 50, temperature 25
      <<200, 0, 150, 0>>,       \* DHT11: humidity 200, temperature 150
      <<1, 244, 128, 203>>,     \* sign bit, magnitude 20.3
      <<1, 244, 128, 0>>,       \* sign bit, magnitude 0
      <<3, 232, 3, 232>>,       \* humidity 100.0, temperature 100.0
      <<3, 233, 0, 203>>,       \* humidity 100.1
      <<1, 244, 3, 233>> }      \* temperature 100.1

FlipPayloads == { <<1, 244, 0, 203>>, <<50, 0, 25, 0>> }

Frames ==
    { WithCheck(b) : b \in Payloads }
    \cup { b \o <<FlipBit(CheckSumOf(b), k)>> : b \in FlipPayloads, k \in 0..7 }
    \cup { OnesFrame, AltFrame, <<2, 244, 0, 203, 192>> }

EdgeFrames == { OnesFrame, AltFrame, Ex22Frame }
StallFrames == { OnesFrame, Ex22Frame }
StallCuts == { 1, 2, 3, 4, 43, 44, 82 }

NoSensor == [level |-> TRUE, frame |-> ZeroFrame, prof |-> "nominal", cut |-> 0]

Sensors ==
    { [level |-> TRUE, frame |-> f, prof |-> "nominal", cut |-> FullCut] : f \in Frames }
    \cup { [level |-> TRUE, frame |-> f, prof |-> "edge", cut |-> FullCut] : f \in EdgeFrames }
    \cup { [level |-> TRUE, frame |-> f, prof |-> "nominal", cut |-> c] :
               f \in StallFrames, c \in StallCuts }
    \cup { [level |-> lv, frame |-> ZeroFrame, prof |-> "nominal", cut |-> 0] :
               lv \in BOOLEAN }

----------------------------------------------------------------------------
(* The stages of read() *)

\* timings_[i] = waitForState(...): uint32_t stored into a uint16_t (DHT.h:55, DHT.cpp:54)
StoreTiming(c) == c % UInt16

\* Variant of the decoder that shifts each bit in from the top, so the first
\* bit received ends up least significant.
RECURSIVE ReconstructLsbFirst(_, _, _, _)
ReconstructLsbFirst(timings, data, k, scale) ==
    IF k >= NumTimings THEN data
    ELSE LET bit == IF timings[k + 1] > lowHighCutoff(scale) THEN 1 ELSE 0
             byteOff == (k \div 2) \div 8
         IN  ReconstructLsbFirst(timings,
                                 [data EXCEPT ![byteOff + 1] = (@ \div 2) + 128 * bit],
                                 k + 2, scale)

reconstructLsbFirst(timings, data, scale) == ReconstructLsbFirst(timings, data, 1, scale)

\* DHT.cpp:80-85
RECURSIVE Reconstruct(_, _, _, _)
Reconstruct(timings, data, k, scale) ==
    IF k >= NumTimings THEN data
    ELSE LET bit == IF timings[k + 1] > lowHighCutoff(scale) THEN 1 ELSE 0
             byteOff == (k \div 2) \div 8
         IN  Reconstruct(timings,
                         [data EXCEPT ![byteOff + 1] = (@ * 2 + bit) % 256],
                         k + 2, scale)

\* Variant of the decoder that reads the even-indexed (sync) timings.
reconstructFromSync(timings, data, scale) == Reconstruct(timings, data, 0, scale)

reconstructDataFromTimings(timings, data, scale) == Reconstruct(timings, data, 1, scale)

\* Variant of the checksum without the & 0xFF.
checkSumNoMask(data) == data[1] + data[2] + data[3] + data[4]

\* DHT.cpp:100
checkSum(data) == (data[1] + data[2] + data[3] + data[4]) % 256

\* Variant of the temperature without the & 0x7F on the high byte.
Temp22NoMask(data) ==
    LET mag == data[3] * 256 + data[4]
    IN  IF data[3] \div 128 = 1 THEN -mag ELSE mag

\* Variant of the temperature that ignores the sign bit.
Temp22Unsigned(data) == (data[3] % 128) * 256 + data[4]

\* DHT.cpp:113, in tenths
Humidity22(data) == data[1] * 256 + data[2]

\* DHT.cpp:114-116, in tenths
Temp22(data) ==
    LET mag == (data[3] % 128) * 256 + data[4]
    IN  IF data[3] \div 128 = 1 THEN -mag ELSE mag

\* Variant of the range test that also rejects the end points 0 and 100.
OutOfRangeExclusive(tenths) == tenths <= 0 \/ tenths >= 1000

\* Variant of the range test without the upper bound.
OutOfRangeLowOnly(tenths) == tenths < 0

\* DHT.cpp:118, 122: out of [0.0f, 100.0f]
OutOfRange(tenths) == tenths < 0 \/ tenths > 1000

\* Variant of parseData() that fills the fields before it tests the checksum.
parseDataAssignsFirst(type, data, temp, humidity) ==
    LET t == IF type = "DHT11" THEN data[3] * 10 ELSE Temp22(data)
        h == IF type = "DHT11" THEN data[1] * 10 ELSE Humidity22(data)
    IN  IF data[5] # checkSum(data)
        THEN [ok |-> FALSE, temp |-> t, humidity |-> h, err |-> "Checksum"]
        ELSE IF type # "DHT11" /\ OutOfRange(t)
        THEN [ok |-> FALSE, temp |-> t, humidity |-> h, err |-> "TempRange"]
        ELSE IF type # "DHT11" /\ OutOfRange(h)
        THEN [ok |-> FALSE, temp |-> t, humidity |-> h, err |-> "HumidityRange"]
        ELSE [ok |-> TRUE, temp |-> t, humidity |-> h, err |-> "none"]

\* Variant of parseData() that applies the range tests to DHT11 values too.
parseDataRangeChecks11(type, data, temp, humidity) ==
    LET t == IF type = "DHT11" THEN data[3] * 10 ELSE Temp22(data)
        h == IF type = "DHT11" THEN data[1] * 10 ELSE Humidity22(data)
    IN  IF data[5] # checkSum(data)
        THEN [ok |-> FALSE, temp |-> temp, humidity |-> humidity, err |-> "Checksum"]
        ELSE IF OutOfRange(t)
        THEN [ok |-> FALSE, temp |-> t, humidity |-> h, err |-> "TempRange"]
        ELSE IF OutOfRange(h)
        THEN [ok |-> FALSE, temp |-> t, humidity |-> h, err |-> "HumidityRange"]
        ELSE [ok |-> TRUE, temp |-> t, humidity |-> h, err |-> "none"]

\* Variant of parseData() that takes an AM2302 for a DHT11.
parseDataAM2302AsDHT11(type, data, temp, humidity) ==
    IF data[5] # checkSum(data)
    THEN [ok |-> FALSE, temp |-> temp, humidity |-> humidity, err |-> "Checksum"]
    ELSE IF type = "DHT11" \/ type = "AM2302"
    THEN [ok |-> TRUE, temp |-> data[3] * 10, humidity |-> data[1] * 10, err |-> "none"]
    ELSE IF OutOfRange(Temp22(data))
    THEN [ok |-> FALSE, temp |-> Temp22(data), humidity |-> Humidity22(data),
          err |-> "TempRange"]
    ELSE IF OutOfRange(Humidity22(data))
    THEN [ok |-> FALSE, temp |-> Temp22(data), humidity |-> Humidity22(data),
          err |-> "HumidityRange"]
    ELSE [ok |-> TRUE, temp |-> Temp22(data), humidity |-> Humidity22(data),
          err |-> "none"]

\* DHT.cpp:96-128: the return value, the two fields afterwards, and the
\* diagnostic printed.
parseData(type, data, temp, humidity) ==
    IF data[5] # checkSum(data)
    THEN [ok |-> FALSE, temp |-> temp, humidity |-> humidity, err |-> "Checksum"]
    ELSE IF type = "DHT11"
    THEN [ok |-> TRUE, temp |-> data[3] * 10, humidity |-> data[1] * 10, err |-> "none"]
    ELSE IF OutOfRange(Temp22(data))
    THEN [ok |-> FALSE, temp |-> Temp22(data), humidity |-> Humidity22(data),
          err |-> "TempRange"]
    ELSE IF OutOfRange(Humidity22(data))
    THEN [ok |-> FALSE, temp |-> Temp22(data), humidity |-> Humidity22(data),
          err |-> "HumidityRange"]
    ELSE [ok |-> TRUE, temp |-> Temp22(data), humidity |-> Humidity22(data),
          err |-> "none"]

\* Variant of the failure counter that counts every call.
FailureCountAlways(fc, ok) == fc + 1

\* Variant of the failure counter that counts a failure twice.
FailureCountTwice(fc, ok) == IF ~ok THEN fc + 2 ELSE fc

\* Variant of the failure counter that never counts.
FailureCountNever(fc, ok) == fc

\* The counters are uint32_t; a reader makes at most MaxReads calls here, far
\* from the 2^32 calls at which they wrap, so the increments are plain.
\* DHT.h:92-93
FailureCountAfter(fc, ok) == IF ~ok THEN fc + 1 ELSE fc

\* DHT.h:87
ReadCountAfter(rc) == rc + 1

----------------------------------------------------------------------------
(* Configuration and accessors *)

\* DHT.cpp:9-16.  "none" when no name matched and control reaches
\* assert(false): nothing is returned there.
TypeFromString(name) ==
    IF name = "DHT11" THEN "DHT11"
    ELSE IF name = "DHT22" THEN "DHT22"
    ELSE IF name = "AM2302" THEN "AM2302"
    ELSE "none"

\* DHT.h:98, DHT.h:107: the conditions celsius() and humidity() assert.
CelsiusAssert(temp) == temp > 0
HumidityAssert(humidity) == humidity > 0

\* Variant of the failure rate with the quotient upside down.
failureRateInverted(fc, rc) == [num |-> rc * 100, den |-> fc]

\* Variant of the failure rate that reports the share of successful reads.
failureRateOfSuccesses(fc, rc) == [num |-> (rc - fc) * 100, den |-> rc]

\* DHT.h:111-113: float(failureCount_) / float(readCount_) * 100.0f, kept as
\* the exact fraction num/den (den = 0: the quotient is not a number).
failureRate(fc, rc) == [num |-> fc * 100, den |-> rc]

----------------------------------------------------------------------------
(* The state machine *)

config == <<type_, clockScale_>>
stats == <<readCount_, failureCount_>>
buffers == <<timings_, data_, lastState_>>
reading == <<temp_, humidity_>>
process == <<typeName, build>>
gpio == <<pinMode, ops>>

\* MotionDetector::MotionDetector (MotionDetector.cpp:11-15); the main loop
\* has not called waitForMotion yet.
MotionDetectorInit ==
    /\ state_ = FALSE
    /\ newState = FALSE
    /\ total = 0
    /\ motionResult = FALSE
    /\ mpc = "loop"
    /\ moves = <<>>

\* The empty unordered_map
NoNodes == [id \in {} |-> 0]

\* Network::Network (network.cpp:28-37); init() has not been called yet and
\* the Manager delivers nothing.
NetworkInit ==
    /\ done = FALSE
    /\ failed = FALSE
    /\ home_id = 0
    /\ nodes = NoNodes
    /\ lock = "free"
    /\ watching = FALSE
    /\ driver = FALSE
    /\ ipc = "addWatcher"
    /\ woken = FALSE
    /\ initResult = FALSE
    /\ hpc = "idle"
    /\ note = [type |-> "none", node |-> 0, home |-> 0]
    /\ handled = <<>>

\* The process starts: the option string is given, no reader exists yet.
\* nerve's main() always builds the reader with the default clockScale
\* (main.cpp:216); other scales are for readers built from a DHTType directly.
DHTReaderInit ==
    /\ typeName \in TypeNames
    /\ type_ = "none"
    /\ clockScale_ \in ClockScales
    /\ (typeName \notin DHTTypes => clockScale_ = 100)
    /\ build = "any"
    \* The constructor leaves the buffers uninitialised (DHT.h:81-84).
    /\ timings_ \in { Zeros(NumTimings), [k \in 1..NumTimings |-> UInt16 - 1] }
    /\ data_ \in { Zeros(5), [k \in 1..5 |-> 255] }
    /\ lastState_ \in BOOLEAN
    /\ temp_ = 0
    /\ humidity_ = 0
    /\ readCount_ = 0
    /\ failureCount_ = 0
    /\ pc = "configure"
    /\ i = 0
    /\ count = 0
    /\ success = FALSE
    /\ err = "none"
    /\ sensor = NoSensor
    /\ line = [level |-> TRUE, runs |-> <<>>]
    /\ lastGood = <<0, 0>>
    /\ pinMode \in {"in", "out"}
    /\ ops = <<>>
    /\ published = <<>>

Init == DHTReaderInit /\ MotionDetectorInit /\ NetworkInit

\* TypeFromString matched a name; the reader is constructed with the type
\* (main.cpp:81, 216; DHT.h:81-84).
ConfigureNamed ==
    /\ pc = "configure"
    /\ TypeFromString(typeName) # "none"
    /\ type_' = TypeFromString(typeName)
    /\ pc' = "idle"
    /\ UNCHANGED <<clockScale_, stats, buffers, reading, i, count, success, err, sensor,
                   line, lastGood, process, gpio, published>>
    /\ UNCHANGED <<motion, zwave>>

\* No name matched and assert(false) aborts the process (DHT.cpp:15).
ConfigureAbort ==
    /\ pc = "configure"
    /\ TypeFromString(typeName) = "none"
    /\ build = "any"
    /\ pc' = "aborted"
    /\ UNCHANGED <<config, stats, buffers, reading, i, count, success, err, sensor,
                   line, lastGood, process, gpio, published>>
    /\ UNCHANGED <<motion, zwave>>

\* No name matched and the assertion is compiled out: control flows off the
\* end of TypeFromString and the caller gets an indeterminate DHTType
\* (DHT.cpp:15-16), with which the reader is constructed.
ConfigureIndeterminate ==
    /\ pc = "configure"
    /\ TypeFromString(typeName) = "none"
    /\ build' = "ndebug"
    /\ type_' \in IndeterminateTypes
    /\ pc' = "idle"
    /\ UNCHANGED <<clockScale_, stats, buffers, reading, i, count, success, err, sensor,
                   line, lastGood, typeName, gpio, published>>
    /\ UNCHANGED <<motion, zwave>>

\* read() is entered: ++readCount_ (DHT.h:87)
ReadCall ==
    /\ pc = "idle"
    /\ readCount_ < MaxReads
    /\ readCount_' = ReadCountAfter(readCount_)
    /\ pc' = "reset"
    /\ i' = 0
    /\ count' = 0
    /\ success' = FALSE
    /\ err' = "none"
    /\ ops' = <<>>
    /\ published' = <<>>
    /\ UNCHANGED <<config, buffers, reading, failureCount_, sensor, line, lastGood,
                   process, pinMode>>
    /\ UNCHANGED <<motion, zwave>>

\* Variant of reset() that clears the buffers but not the Reading.
ResetKeepsReading ==
    /\ pc = "reset"
    /\ timings_' = Zeros(NumTimings)
    /\ data_' = Zeros(5)
    /\ lastState_' = TRUE
    /\ pc' = "fselOutput"
    /\ UNCHANGED <<config, stats, reading, i, count, success, err, sensor, line, lastGood,
                   process, gpio, published>>
    /\ UNCHANGED <<motion, zwave>>

\* Variant of reset() that clears the timings and the Reading but not data_.
ResetKeepsData ==
    /\ pc = "reset"
    /\ timings_' = Zeros(NumTimings)
    /\ lastState_' = TRUE
    /\ temp_' = 0
    /\ humidity_' = 0
    /\ pc' = "fselOutput"
    /\ UNCHANGED <<config, stats, data_, i, count, success, err, sensor, line, lastGood,
                   process, gpio, published>>
    /\ UNCHANGED <<motion, zwave>>

\* reset() (DHT.h:62-69)
Reset ==
    /\ pc = "reset"
    /\ timings_' = Zeros(NumTimings)
    /\ data_' = Zeros(5)
    /\ lastState_' = TRUE
    /\ temp_' = 0
    /\ humidity_' = 0
    /\ pc' = "fselOutput"
    /\ UNCHANGED <<config, stats, i, count, success, err, sensor, line, lastGood,
                   process, gpio, published>>
    /\ UNCHANGED <<motion, zwave>>

Op(name, arg) == [op |-> name, arg |-> arg]

\* What every step of the trigger leaves alone.
TriggerFrame ==
    UNCHANGED <<config, stats, buffers, reading, i, count, success, err, sensor, line,
                lastGood, process, published, motion, zwave>>

\* bcm2835_gpio_fsel(pin_, BCM2835_GPIO_FSEL_OUTP) (DHT.cpp:30)
FselOutput ==
    /\ pc = "fselOutput"
    /\ pinMode' = "out"
    /\ ops' = Append(ops, Op("fsel_out", 0))
    /\ pc' = "writeHigh"
    /\ TriggerFrame

\* bcm2835_gpio_write(pin_, HIGH) (DHT.cpp:31)
WriteHigh ==
    /\ pc = "writeHigh"
    /\ ops' = Append(ops, Op("write_high", 0))
    /\ pc' = "holdHigh"
    /\ UNCHANGED pinMode
    /\ TriggerFrame

\* Variant of the first hold that sleeps 500 microseconds.
HoldHighShort ==
    /\ pc = "holdHigh"
    /\ ops' = Append(ops, Op("usleep", 500))
    /\ pc' = "writeLow"
    /\ UNCHANGED pinMode
    /\ TriggerFrame

\* usleep(500000) (DHT.cpp:32)
HoldHigh ==
    /\ pc = "holdHigh"
    /\ ops' = Append(ops, Op("usleep", TriggerHighMicros))
    /\ pc' = "writeLow"
    /\ UNCHANGED pinMode
    /\ TriggerFrame

\* bcm2835_gpio_write(pin_, LOW) (DHT.cpp:33)
WriteLow ==
    /\ pc = "writeLow"
    /\ ops' = Append(ops, Op("write_low", 0))
    /\ pc' = "holdLow"
    /\ UNCHANGED pinMode
    /\ TriggerFrame

\* usleep(20000) (DHT.cpp:34)
HoldLow ==
    /\ pc = "holdLow"
    /\ ops' = Append(ops, Op("usleep", TriggerLowMicros))
    /\ pc' = "trigger"
    /\ UNCHANGED pinMode
    /\ TriggerFrame

\* The pin is switched to input (DHT.cpp:37), which ends the trigger
\* (DHT.cpp:30-37); from here on the device decides what the line does.
Trigger ==
    /\ pc = "trigger"
    /\ pinMode' = "in"
    /\ ops' = Append(ops, Op("fsel_in", 0))
    /\ \E s \in Sensors :
          /\ sensor' = s
          /\ line' = LineOf(s, clockScale_)
    /\ pc' = "ack"
    /\ UNCHANGED <<config, stats, buffers, reading, i, count, success, err, lastGood,
                   process, published>>
    /\ UNCHANGED <<motion, zwave>>

\* The wait for the device to pull the line low (DHT.cpp:38-45)
AckWait ==
    /\ pc = "ack"
    /\ count' = WaitPolls(line, FALSE, AckTimeout)
    /\ line' = LineAfterWait(line, FALSE, AckTimeout)
    /\ IF count' = AckTimeout
       THEN /\ err' = "AckTimeout"
            /\ success' = FALSE
            /\ pc' = "return"
       ELSE /\ pc' = "discardHigh"
            /\ UNCHANGED <<err, success>>
    /\ UNCHANGED <<config, stats, buffers, reading, i, sensor, lastGood,
                   process, gpio, published>>
    /\ UNCHANGED <<motion, zwave>>

\* waitForState(true), result dropped (DHT.cpp:48)
DiscardHigh ==
    /\ pc = "discardHigh"
    /\ count' = waitForState(line, TRUE, clockScale_)
    /\ line' = LineAfterWait(line, TRUE, timeoutCycles(clockScale_))
    /\ pc' = "discardLow"
    /\ UNCHANGED <<config, stats, buffers, reading, i, success, err, sensor, lastGood,
                   process, gpio, published>>
    /\ UNCHANGED <<motion, zwave>>

\* waitForState(false), result dropped (DHT.cpp:49)
DiscardLow ==
    /\ pc = "discardLow"
    /\ count' = waitForState(line, FALSE, clockScale_)
    /\ line' = LineAfterWait(line, FALSE, timeoutCycles(clockScale_))
    /\ pc' = "capture"
    /\ i' = 0
    /\ UNCHANGED <<config, stats, buffers, reading, success, err, sensor, lastGood,
                   process, gpio, published>>
    /\ UNCHANGED <<motion, zwave>>

\* The level capture wait i waits for (DHT.cpp:54)
Expected(k) == k % 2 = 0

\* The test that ends the capture early (DHT.cpp:55)
TimedOut(stored, scale) == stored = timeoutCycles(scale)

\* Variant of the capture loop whose index never advances.
CaptureStoreStuck ==
    /\ pc = "capture"
    /\ i < NumTimings
    /\ LET c == waitForState(line, Expected(i), clockScale_)
       IN  /\ ~TimedOut(StoreTiming(c), clockScale_)
           /\ count' = c
           /\ timings_' = [timings_ EXCEPT ![i + 1] = StoreTiming(c)]
    /\ line' = LineAfterWait(line, Expected(i), timeoutCycles(clockScale_))
    /\ UNCHANGED <<pc, i>>
    /\ UNCHANGED <<config, stats, data_, lastState_, reading, success, err, sensor, lastGood,
                   process, gpio, published>>
    /\ UNCHANGED <<motion, zwave>>

\* One iteration of the capture loop that goes on (DHT.cpp:53-55)
CaptureStore ==
    /\ pc = "capture"
    /\ i < NumTimings
    /\ LET c == waitForState(line, Expected(i), clockScale_)
       IN  /\ ~TimedOut(StoreTiming(c), clockScale_)
           /\ count' = c
           /\ timings_' = [timings_ EXCEPT ![i + 1] = StoreTiming(c)]
    /\ line' = LineAfterWait(line, Expected(i), timeoutCycles(clockScale_))
    /\ i' = i + 1
    /\ pc' = IF i + 1 < NumTimings THEN "capture" ELSE "reconstruct"
    /\ UNCHANGED <<config, stats, data_, lastState_, reading, success, err, sensor, lastGood,
                   process, gpio, published>>
    /\ UNCHANGED <<motion, zwave>>

\* Variant of the capture loop that goes on to the decoder after a timeout.
CaptureTimeoutDecodes ==
    /\ pc = "capture"
    /\ i < NumTimings
    /\ LET c == waitForState(line, Expected(i), clockScale_)
       IN  /\ TimedOut(StoreTiming(c), clockScale_)
           /\ count' = c
           /\ timings_' = [timings_ EXCEPT ![i + 1] = StoreTiming(c)]
    /\ line' = LineAfterWait(line, Expected(i), timeoutCycles(clockScale_))
    /\ err' = "BitTimeout"
    /\ success' = FALSE
    /\ pc' = "reconstruct"
    /\ UNCHANGED <<config, stats, data_, lastState_, reading, i, sensor, lastGood,
                   process, gpio, published>>
    /\ UNCHANGED <<motion, zwave>>

\* One iteration of the capture loop that gives up (DHT.cpp:53-58)
CaptureTimeout ==
    /\ pc = "capture"
    /\ i < NumTimings
    /\ LET c == waitForState(line, Expected(i), clockScale_)
       IN  /\ TimedOut(StoreTiming(c), clockScale_)
           /\ count' = c
           /\ timings_' = [timings_ EXCEPT ![i + 1] = StoreTiming(c)]
    /\ line' = LineAfterWait(line, Expected(i), timeoutCycles(clockScale_))
    /\ err' = "BitTimeout"
    /\ success' = FALSE
    /\ pc' = "return"
    /\ UNCHANGED <<config, stats, data_, lastState_, reading, i, sensor, lastGood,
                   process, gpio, published>>
    /\ UNCHANGED <<motion, zwave>>

\* reconstructDataFromTimings() (DHT.cpp:76-94)
ReconstructStep ==
    /\ pc = "reconstruct"
    /\ data_' = reconstructDataFromTimings(timings_, data_, clockScale_)
    /\ pc' = "parseData"
    /\ UNCHANGED <<config, stats, timings_, lastState_, reading, i, count, success, err,
                   sensor, line, lastGood, process, gpio, published>>
    /\ UNCHANGED <<motion, zwave>>

\* parseData() (DHT.cpp:96-128)
ParseStep ==
    /\ pc = "parseData"
    /\ LET r == parseData(type_, data_, temp_, humidity_)
       IN  /\ temp_' = r.temp
           /\ humidity_' = r.humidity
           /\ success' = r.ok
           /\ err' = r.err
    /\ pc' = "return"
    /\ UNCHANGED <<config, stats, buffers, i, count, sensor, line, lastGood,
                   process, gpio, published>>
    /\ UNCHANGED <<motion, zwave>>

\* if (!success) failureCount_++; return success; (DHT.h:92-94)
Return ==
    /\ pc = "return"
    /\ failureCount_' = FailureCountAfter(failureCount_, success)
    /\ lastGood' = IF success THEN reading ELSE lastGood
    /\ pc' = "idle"
    /\ UNCHANGED <<config, readCount_, buffers, reading, i, count, success, err, sensor, line,
                   process, gpio, published>>
    /\ UNCHANGED <<motion, zwave>>

\* What the steps of the main loop after read() leave alone.
ReportFrame ==
    UNCHANGED <<config, stats, buffers, reading, i, count, success, err, sensor, line,
                lastGood, typeName, gpio, motion, zwave>>

\* read() returned true and the main loop hands celsius() and humidity() to
\* the network (main.cpp:224-225): both assertions hold.
Report ==
    /\ pc = "idle"
    /\ success
    /\ published = <<>>
    /\ CelsiusAssert(temp_) /\ HumidityAssert(humidity_)
    /\ published' = reading
    /\ UNCHANGED <<pc, build>>
    /\ ReportFrame

\* The same, with an assertion of celsius() or humidity() failing
\* (DHT.h:98, 107): the process aborts.
ReportAbort ==
    /\ pc = "idle"
    /\ success
    /\ published = <<>>
    /\ ~(CelsiusAssert(temp_) /\ HumidityAssert(humidity_))
    /\ build = "any"
    /\ pc' = "aborted"
    /\ UNCHANGED <<published, build>>
    /\ ReportFrame

\* The same, with the failing assertion compiled out: the values go out.
ReportUnchecked ==
    /\ pc = "idle"
    /\ success
    /\ published = <<>>
    /\ ~(CelsiusAssert(temp_) /\ HumidityAssert(humidity_))
    /\ build' = "ndebug"
    /\ published' = reading
    /\ UNCHANGED pc
    /\ ReportFrame

Next ==
    \/ ConfigureNamed
    \/ ConfigureAbort
    \/ ConfigureIndeterminate
    \/ ReadCall
    \/ Reset
    \/ FselOutput
    \/ WriteHigh
    \/ HoldHigh
    \/ WriteLow
    \/ HoldLow
    \/ Trigger
    \/ AckWait
    \/ DiscardHigh
    \/ DiscardLow
    \/ CaptureStore
    \/ CaptureTimeout
    \/ ReconstructStep
    \/ ParseStep
    \/ Return
    \/ Report
    \/ ReportAbort
    \/ ReportUnchecked

Spec == Init /\ [][Next]_vars

\* The steps of one read() call, reset() to return (DHT.h:86-95).
ReadSteps ==
    \/ Reset
    \/ FselOutput
    \/ WriteHigh
    \/ HoldHigh
    \/ WriteLow
    \/ HoldLow
    \/ Trigger
    \/ AckWait
    \/ DiscardHigh
    \/ DiscardLow
    \/ CaptureStore
    \/ CaptureTimeout
    \/ ReconstructStep
    \/ ParseStep
    \/ Return

\* A reader constructed with one of the three types, and its read() calls.
ReaderInit == Init /\ typeName \in DHTTypes

ReaderNext ==
    \/ ConfigureNamed
    \/ ReadCall
    \/ ReadSteps

\* read() is ordinary sequential code on one thread: once called, the thread
\* keeps executing it.
FairSpec == ReaderInit /\ [][ReaderNext]_vars /\ WF_vars(ReadSteps)

----------------------------------------------------------------------------
(* MotionDetector and the inner loop of mainloop *)

\* The reader as constructed by nerve, left alone.
DHTReaderAtRest ==
    /\ DHTReaderInit
    /\ typeName = "DHT22"
    /\ clockScale_ = 100
    /\ timings_ = Zeros(NumTimings)
    /\ data_ = Zeros(5)
    /\ lastState_ = TRUE
    /\ pinMode = "in"

\* What usleep(100000), the sample and gettimeofday take beyond the 100 ms
\* asked for (MotionDetector.cpp:31-37), in microseconds.
SleepOverheads == {0, MotionPollMicros}

\* mainloop calls motion.waitForMotion(3000000) (main.cpp:233);
\* gettimeofday(&initial) (MotionDetector.cpp:21)
WaitForMotionCall ==
    /\ mpc = "loop"
    /\ Len(moves) < MaxMoves
    /\ total' = 0
    /\ mpc' = "sample"
    /\ UNCHANGED <<state_, newState, motionResult, moves>>
    /\ UNCHANGED <<dht, zwave>>

\* bool newState = bcm2835_gpio_lev(pin_) (MotionDetector.cpp:25)
MotionSample ==
    /\ mpc = "sample"
    /\ newState' \in BOOLEAN
    /\ mpc' = "compare"
    /\ UNCHANGED <<state_, total, motionResult, moves>>
    /\ UNCHANGED <<dht, zwave>>

\* Variant of the change branch that returns true without storing the level.
MotionChangedNotStored ==
    /\ mpc = "compare"
    /\ newState # state_
    /\ motionResult' = TRUE
    /\ mpc' = "returned"
    /\ UNCHANGED <<state_, newState, total, moves>>
    /\ UNCHANGED <<dht, zwave>>

\* if (newState != state_) { state_ = newState; return true; }
\* (MotionDetector.cpp:26-29)
MotionChanged ==
    /\ mpc = "compare"
    /\ newState # state_
    /\ state_' = newState
    /\ motionResult' = TRUE
    /\ mpc' = "returned"
    /\ UNCHANGED <<newState, total, moves>>
    /\ UNCHANGED <<dht, zwave>>

\* No change: usleep, the elapsed time, and the loop test
\* (MotionDetector.cpp:32-40)
MotionSame ==
    /\ mpc = "compare"
    /\ newState = state_
    /\ \E over \in SleepOverheads : total' = total + MotionPollMicros + over
    /\ IF total' < MotionWaitMicros
       THEN mpc' = "sample" /\ UNCHANGED motionResult
       ELSE mpc' = "returned" /\ motionResult' = FALSE
    /\ UNCHANGED <<state_, newState, moves>>
    /\ UNCHANGED <<dht, zwave>>

\* net.detectedMovement(motion.state()) (main.cpp:233-234)
DetectedMovement ==
    /\ mpc = "returned"
    /\ motionResult
    /\ moves' = Append(moves, state_)
    /\ mpc' = "loop"
    /\ UNCHANGED <<state_, newState, total, motionResult>>
    /\ UNCHANGED <<dht, zwave>>

\* waitForMotion returned false: nothing is published (main.cpp:233)
NoMovement ==
    /\ mpc = "returned"
    /\ ~motionResult
    /\ mpc' = "loop"
    /\ UNCHANGED <<state_, newState, total, motionResult, moves>>
    /\ UNCHANGED <<dht, zwave>>

MotionInit == DHTReaderAtRest /\ MotionDetectorInit /\ NetworkInit

MotionNext ==
    \/ WaitForMotionCall
    \/ MotionSample
    \/ MotionChanged
    \/ MotionSame
    \/ DetectedMovement
    \/ NoMovement

MotionSpec == MotionInit /\ [][MotionNext]_vars

----------------------------------------------------------------------------
(* Network::init() and the notification thread running InitHandler *)

\* The notification types that end the wait of init() (network.cpp:140-151)
TerminalTypes ==
    {"DriverFailed", "AwakeNodesQueried", "AllNodesQueried", "AllNodesQueriedSomeDead"}

\* The types the Manager delivers while the driver starts.  "NodeNaming"
\* stands for the cases that only print or do nothing (network.cpp:120-134,
\* 153-163); NodeNew is handled as NodeAdded.
NoteTypes ==
    TerminalTypes \cup {"ValueAdded", "NodeAdded", "DriverReady", "NodeNaming"}

\* One driver, so one home id, and the node the notifications are about.
HomeId == 1
NodeIds == {1}

\* Manager::AddWatcher(InitHandler, this) (network.cpp:67)
AddWatcher ==
    /\ ipc = "addWatcher"
    /\ watching' = TRUE
    /\ ipc' = "addDriver"
    /\ UNCHANGED <<done, failed, home_id, nodes, lock, driver, woken, initResult,
                   hpc, note, handled>>
    /\ UNCHANGED <<dht, motion>>

\* Manager::AddDriver(device_name) (network.cpp:68)
AddDriver ==
    /\ ipc = "addDriver"
    /\ driver' = TRUE
    /\ ipc' = "lock"
    /\ UNCHANGED <<done, failed, home_id, nodes, lock, watching, woken, initResult,
                   hpc, note, handled>>
    /\ UNCHANGED <<dht, motion>>

\* unique_lock<mutex> guard(lock) (network.cpp:70)
InitLock ==
    /\ ipc = "lock"
    /\ lock = "free"
    /\ lock' = "init"
    /\ ipc' = "wait"
    /\ UNCHANGED <<done, failed, home_id, nodes, watching, driver, woken, initResult,
                   hpc, note, handled>>
    /\ UNCHANGED <<dht, motion>>

\* guard_done.wait(guard, pred) with the predicate true (network.cpp:71)
InitWaitPass ==
    /\ ipc = "wait"
    /\ done
    /\ ipc' = "removeWatcher"
    /\ UNCHANGED <<done, failed, home_id, nodes, lock, watching, driver, woken,
                   initResult, hpc, note, handled>>
    /\ UNCHANGED <<dht, motion>>

\* guard_done.wait(guard, pred) with the predicate false: the mutex is
\* released and the thread blocks (network.cpp:71)
InitWaitBlock ==
    /\ ipc = "wait"
    /\ ~done
    /\ lock' = "free"
    /\ woken' = FALSE
    /\ ipc' = "blocked"
    /\ UNCHANGED <<done, failed, home_id, nodes, watching, driver, initResult,
                   hpc, note, handled>>
    /\ UNCHANGED <<dht, motion>>

\* The blocked thread was notified: it takes the mutex again and tests the
\* predicate again (network.cpp:71)
InitWake ==
    /\ ipc = "blocked"
    /\ woken
    /\ lock = "free"
    /\ lock' = "init"
    /\ ipc' = "wait"
    /\ UNCHANGED <<done, failed, home_id, nodes, watching, driver, woken, initResult,
                   hpc, note, handled>>
    /\ UNCHANGED <<dht, motion>>

\* A condition variable may also wake unnotified (network.cpp:71)
InitSpuriousWake ==
    /\ ipc = "blocked"
    /\ ~woken
    /\ lock = "free"
    /\ lock' = "init"
    /\ ipc' = "wait"
    /\ UNCHANGED <<done, failed, home_id, nodes, watching, driver, woken, initResult,
                   hpc, note, handled>>
    /\ UNCHANGED <<dht, motion>>

\* Manager::RemoveWatcher(InitHandler, this), the mutex still held
\* (network.cpp:73)
RemoveWatcher ==
    /\ ipc = "removeWatcher"
    /\ watching' = FALSE
    /\ ipc' = "return"
    /\ UNCHANGED <<done, failed, home_id, nodes, lock, driver, woken, initResult,
                   hpc, note, handled>>
    /\ UNCHANGED <<dht, motion>>

\* return !failed; the guard is destroyed after the value is read
\* (network.cpp:76-77)
InitReturn ==
    /\ ipc = "return"
    /\ initResult' = ~failed
    /\ lock' = "free"
    /\ ipc' = "returned"
    /\ UNCHANGED <<done, failed, home_id, nodes, watching, driver, woken,
                   hpc, note, handled>>
    /\ UNCHANGED <<dht, motion>>

\* The Manager calls the registered watcher with a notification
\* (network.cpp:86-89)
Deliver ==
    /\ hpc = "idle"
    /\ watching
    /\ driver
    /\ Len(handled) < MaxNotes
    /\ \E t \in NoteTypes, n \in NodeIds :
          note' = [type |-> t, node |-> n, home |-> HomeId]
    /\ hpc' = "lock"
    /\ UNCHANGED <<done, failed, home_id, nodes, lock, watching, driver, ipc, woken,
                   initResult, handled>>
    /\ UNCHANGED <<dht, motion>>

\* unique_lock<mutex> guard(network->lock) (network.cpp:90)
HandlerLock ==
    /\ hpc = "lock"
    /\ lock = "free"
    /\ lock' = "handler"
    /\ hpc' = "switch"
    /\ UNCHANGED <<done, failed, home_id, nodes, watching, driver, ipc, woken,
                   initResult, note, handled>>
    /\ UNCHANGED <<dht, motion>>

\* What every case of the switch does besides its own assignments: the
\* notification counts as handled and the handler goes on to return.
HandlerFrame ==
    /\ handled' = Append(handled, note.type)
    /\ hpc' = "unlock"
    /\ UNCHANGED <<lock, watching, driver, ipc, initResult, note>>
    /\ UNCHANGED <<dht, motion>>

\* nodes[id] of an unordered_map: the entry, created empty when missing.
NodeValues(id) == IF id \in DOMAIN nodes THEN nodes[id] ELSE 0

\* case Type_ValueAdded (network.cpp:96-102)
HandleValueAdded ==
    /\ hpc = "switch"
    /\ note.type = "ValueAdded"
    /\ nodes' = [id \in DOMAIN nodes \cup {note.node} |->
                    IF id = note.node THEN NodeValues(id) + 1 ELSE nodes[id]]
    /\ UNCHANGED <<done, failed, home_id, woken>>
    /\ HandlerFrame

\* case Type_NodeNew, Type_NodeAdded (network.cpp:104-118)
HandleNodeAdded ==
    /\ hpc = "switch"
    /\ note.type = "NodeAdded"
    /\ nodes' = [id \in DOMAIN nodes \cup {note.node} |->
                    IF id = note.node THEN 0 ELSE nodes[id]]
    /\ UNCHANGED <<done, failed, home_id, woken>>
    /\ HandlerFrame

\* case Type_DriverReady (network.cpp:136-138)
HandleDriverReady ==
    /\ hpc = "switch"
    /\ note.type = "DriverReady"
    /\ home_id' = note.home
    /\ UNCHANGED <<done, failed, nodes, woken>>
    /\ HandlerFrame

\* Variant of case Type_DriverFailed that ends in a break.
HandleDriverFailedBreaks ==
    /\ hpc = "switch"
    /\ note.type = "DriverFailed"
    /\ failed' = TRUE
    /\ UNCHANGED <<done, home_id, nodes, woken>>
    /\ HandlerFrame

\* case Type_DriverFailed, falling through to done = true and notify_all
\* (network.cpp:140-151)
HandleDriverFailed ==
    /\ hpc = "switch"
    /\ note.type = "DriverFailed"
    /\ failed' = TRUE
    /\ done' = TRUE
    /\ woken' = (woken \/ ipc = "blocked")
    /\ UNCHANGED <<home_id, nodes>>
    /\ HandlerFrame

\* case Type_AwakeNodesQueried, Type_AllNodesQueried,
\* Type_AllNodesQueriedSomeDead (network.cpp:143-151)
HandleQueried ==
    /\ hpc = "switch"
    /\ note.type \in TerminalTypes \ {"DriverFailed"}
    /\ done' = TRUE
    /\ woken' = (woken \/ ipc = "blocked")
    /\ UNCHANGED <<failed, home_id, nodes>>
    /\ HandlerFrame

\* The cases that change nothing (network.cpp:120-134, 153-163)
HandleOther ==
    /\ hpc = "switch"
    /\ note.type = "NodeNaming"
    /\ UNCHANGED <<done, failed, home_id, nodes, woken>>
    /\ HandlerFrame

\* InitHandler returns and its guard releases the mutex (network.cpp:192-193)
HandlerUnlock ==
    /\ hpc = "unlock"
    /\ lock' = "free"
    /\ hpc' = "idle"
    /\ UNCHANGED <<done, failed, home_id, nodes, watching, driver, ipc, woken,
                   initResult, note, handled>>
    /\ UNCHANGED <<dht, motion>>

NetInit == DHTReaderAtRest /\ MotionDetectorInit /\ NetworkInit

\* The steps of the thread in init() that are bound to happen.
InitSteps ==
    \/ AddWatcher
    \/ AddDriver
    \/ InitLock
    \/ InitWaitPass
    \/ InitWaitBlock
    \/ InitWake
    \/ RemoveWatcher
    \/ InitReturn

\* The steps of the notification thread once a notification is delivered.
HandlerSteps ==
    \/ HandlerLock
    \/ HandleValueAdded
    \/ HandleNodeAdded
    \/ HandleDriverReady
    \/ HandleDriverFailed
    \/ HandleQueried
    \/ HandleOther
    \/ HandlerUnlock

NetNext ==
    \/ InitSteps
    \/ InitSpuriousWake
    \/ Deliver
    \/ HandlerSteps

\* Both threads keep running; a notified waiter is woken and a free mutex is
\* acquired.
FairNetSpec == NetInit /\ [][NetNext]_vars /\ WF_vars(InitSteps) /\ WF_vars(HandlerSteps)

----------------------------------------------------------------------------
(* Properties *)

Abs(x) == IF x < 0 THEN -x ELSE x

\* read() is about to return and parseData() was reached in this call.
Parsed == pc = "return" /\ err \notin {"AckTimeout", "BitTimeout"}

ByteSum(d) == d[1] + d[2] + d[3] + d[4]

\* The Reading a frame stands for, in tenths, as <<temperature, humidity>>.
Decoded(type, d) ==
    IF type = "DHT11" THEN <<10 * d[3], 10 * d[1]>>
    ELSE <<(IF d[3] >= 128 THEN -1 ELSE 1) * ((d[3] % 128) * 256 + d[4]),
           d[1] * 256 + d[2]>>

\* C1 as stated: between calls the stored Reading is the one decoded by the
\* most recent call that returned true; a call that returns false leaves it
\* as it was.
C1_LastGoodRetained == pc = "idle" => reading = lastGood

\* C1 amended: after a call that returned true the stored Reading is what
\* that call decoded; after a call that returned false it is not the earlier
\* Reading but 0/0 (reset() at the start of the call), or, when the call
\* failed a range check, the values decoded from the rejected frame.
C1_ReadingAfterCall ==
    (pc = "idle" /\ readCount_ > 0) =>
        IF success THEN reading = Decoded(type_, data_)
        ELSE \/ reading = <<0, 0>>
             \/ /\ err \in {"TempRange", "HumidityRange"}
                /\ reading = Decoded(type_, data_)

C1_Witness ==
    /\ pc = "idle"
    /\ ~success
    /\ lastGood # <<0, 0>>
    /\ reading = <<0, 0>>

\* C2: a capture wait that polls timeoutCycles times without seeing the
\* expected level makes read() return false at once (BitTimeout), with no
\* further wait, decode or interpretation.
C2_BitTimeoutFails ==
    [][(pc = "capture"
        /\ waitForState(line, Expected(i), clockScale_) = timeoutCycles(clockScale_))
       => (pc' = "return" /\ ~success' /\ err' = "BitTimeout")]_vars

\* C3: a device that never changes the line after the pin is switched to
\* input (stuck high or stuck low) makes read() return false.
C3_UnresponsiveFails == (pc = "return" /\ sensor.cut = 0) => ~success

\* C4: each call adds exactly 1 to readCount_, and adds 1 to failureCount_
\* if it returns false and 0 if it returns true.
C4_CountersPerCall ==
    [][/\ (pc = "idle" /\ pc' = "reset") =>
              (readCount_' = readCount_ + 1 /\ failureCount_' = failureCount_)
       /\ (pc = "return" /\ pc' = "idle") =>
              /\ readCount_' = readCount_
              /\ failureCount_' = failureCount_ + (IF success THEN 0 ELSE 1)
       /\ (pc \notin {"idle", "return"}) => UNCHANGED stats]_vars

C4_Witness == pc = "idle" /\ readCount_ = 2 /\ failureCount_ = 1

\* C5: failureCount_ <= readCount_ always, and neither counter ever
\* decreases.
C5_CountersOrdered ==
    /\ [](failureCount_ <= readCount_)
    /\ [][readCount_' >= readCount_ /\ failureCount_' >= failureCount_]_vars

C5_Witness == pc = "idle" /\ readCount_ = 2 /\ failureCount_ = readCount_

\* C6: the validator accepts a frame exactly when byte4 is the sum of bytes
\* 0..3 mod 256; a check byte one bit away from that sum is rejected; a
\* rejected frame makes read() return false.
C6_ChecksumIff ==
    Parsed =>
        /\ (err # "Checksum") <=> (data_[5] = ByteSum(data_) % 256)
        /\ \A k \in 0..7 :
              data_[5] = FlipBit(ByteSum(data_) % 256, k) => err = "Checksum"
        /\ err = "Checksum" => ~success

C6_Witness ==
    /\ Parsed
    /\ err = "Checksum"
    /\ data_ = sensor.frame
    /\ data_[5] = FlipBit(ByteSum(data_) % 256, 7)

\* C7: after a checksum mismatch both fields still hold the 0 that reset()
\* gave them; no byte of the rejected frame reached them.
C7_ChecksumLeavesZero ==
    (pc \in {"return", "idle"} /\ err = "Checksum") => (temp_ = 0 /\ humidity_ = 0)

C7_Witness ==
    /\ pc = "return"
    /\ err = "Checksum"
    /\ data_[1] # 0
    /\ data_[3] # 0
    /\ reading = <<0, 0>>

\* The stored data timings encode the frame: a 1 bit as a count above the
\* cut-off, a 0 bit as a count at or below it.
Synthesised(frame, timings, scale) ==
    \A j \in 0..39 :
        IF FrameBit(frame, j) = 1
        THEN timings[2 * j + 2] > lowHighCutoff(scale)
        ELSE timings[2 * j + 2] <= lowHighCutoff(scale)

\* C8: when the stored data timings encode frame B that way, the decoder,
\* started from zeroed bytes, yields exactly B.
C8_RoundTrip ==
    (pc = "parseData" /\ Synthesised(sensor.frame, timings_, clockScale_))
        => data_ = sensor.frame

C8_Witness ==
    /\ pc = "parseData"
    /\ sensor.frame = AltFrame
    /\ sensor.prof = "edge"
    /\ Synthesised(sensor.frame, timings_, clockScale_)
    /\ data_ = AltFrame

\* C9: DHT22/AM2302, checksum-valid frame: humidity in tenths is
\* byte0*256 + byte1 and the temperature magnitude in tenths is
\* (byte2 AND 0x7F)*256 + byte3; the frame 01 F4 00 CB C0 succeeds with 50.0
\* and 20.3.
C9_Decode22 ==
    (Parsed /\ type_ # "DHT11" /\ err # "Checksum") =>
        /\ humidity_ = data_[1] * 256 + data_[2]
        /\ Abs(temp_) = (data_[3] % 128) * 256 + data_[4]
        /\ data_ = Ex22Frame => (success /\ humidity_ = 500 /\ temp_ = 203)

C9_Witness ==
    /\ Parsed
    /\ type_ = "AM2302"
    /\ sensor.frame = Ex22Frame
    /\ success
    /\ humidity_ = 500
    /\ temp_ = 203

\* C10: DHT11, checksum-valid frame: read() succeeds with humidity byte0 and
\* temperature byte2 whatever their size; the frame 50 0 25 0 75 gives 50
\* and 25.
C10_Decode11 ==
    (Parsed /\ type_ = "DHT11" /\ data_[5] = ByteSum(data_) % 256) =>
        /\ success
        /\ humidity_ = 10 * data_[1]
        /\ temp_ = 10 * data_[3]
        /\ data_ = Ex11Frame => (humidity_ = 500 /\ temp_ = 250)

C10_Witness ==
    /\ Parsed
    /\ type_ = "DHT11"
    /\ sensor.frame = <<200, 0, 150, 0, 94>>
    /\ success
    /\ humidity_ = 2000
    /\ temp_ = 1500

\* A value in tenths within [0, 100].
InPercentRange(tenths) == 0 <= tenths /\ tenths <= 1000

IsDHT22 == type_ \in {"DHT22", "AM2302"}

CheckValid(d) == d[5] = ByteSum(d) % 256

\* C11: DHT22/AM2302, checksum-valid frame: read() returns false when the
\* decoded humidity or temperature is outside [0,100] and true when both are
\* inside.
C11_RangeDecides ==
    (Parsed /\ IsDHT22 /\ CheckValid(data_)) =>
        LET d == Decoded(type_, data_)
        IN  /\ success <=> (InPercentRange(d[1]) /\ InPercentRange(d[2]))
            /\ ~success => err \in {"TempRange", "HumidityRange"}

C11_Witness ==
    /\ Parsed
    /\ IsDHT22
    /\ CheckValid(data_)
    /\ err = "HumidityRange"
    /\ ~success
    /\ humidity_ = 1001
    /\ temp_ = 203

\* C12 as stated: DHT22/AM2302, checksum-valid frame with bit 7 of byte2 set:
\* the read yields a Reading whose temperature is the negated magnitude,
\* for every magnitude.
C12_NegativeReading ==
    (Parsed /\ IsDHT22 /\ CheckValid(data_) /\ data_[3] >= 128) =>
        (success /\ temp_ = -((data_[3] % 128) * 256 + data_[4]))

\* C12 amended: such a frame leaves the negated magnitude in the temperature
\* field, but the read succeeds only for magnitude 0; for every non-zero
\* magnitude the negative value fails the range test and read() returns
\* false.
C12_NegativeStoredAndRejected ==
    (Parsed /\ IsDHT22 /\ CheckValid(data_) /\ data_[3] >= 128) =>
        LET mag == (data_[3] % 128) * 256 + data_[4]
        IN  /\ temp_ = -mag
            /\ mag # 0 => (~success /\ err = "TempRange")
            /\ (mag = 0 /\ InPercentRange(humidity_)) => success

C12_Witness ==
    /\ Parsed
    /\ IsDHT22
    /\ data_ = <<1, 244, 128, 203, 64>>
    /\ temp_ = -203
    /\ ~success

\* C13: after read() returned true both fields lie in [0,100] on a
\* DHT22/AM2302 reader and in [0,255] on a DHT11 reader.
C13_SuccessInRange ==
    (pc \in {"return", "idle"} /\ success) =>
        /\ IsDHT22 => (InPercentRange(temp_) /\ InPercentRange(humidity_))
        /\ type_ = "DHT11" =>
              /\ 0 <= temp_ /\ temp_ <= 2550
              /\ 0 <= humidity_ /\ humidity_ <= 2550

C13_Witness ==
    /\ pc = "return"
    /\ success
    /\ IsDHT22
    /\ temp_ = 1000
    /\ humidity_ = 1000

\* C14: after a read() that returned true, celsius() and humidity() return
\* the decoded values and no assertion trips, whatever frame was accepted.
C14_AccessorsNeverAbort ==
    [][(pc = "idle" /\ success) => pc' # "aborted"]_vars

\* failureRate() of the reader as it is now.
Rate == failureRate(failureCount_, readCount_)

\* a <= b for two rates with positive denominators.
RateLE(a, b) == a.num * b.den <= b.num * a.den

\* C15: after one or more read() calls, 0 <= failureRate() <= 100.
C15_RateInRange ==
    (pc = "idle" /\ readCount_ > 0) =>
        /\ Rate.den > 0
        /\ 0 <= Rate.num
        /\ Rate.num <= 100 * Rate.den

C15_Witness ==
    /\ pc = "idle"
    /\ Rate = [num |-> 100, den |-> 2]

\* C16: a call made after at least one earlier call never lowers
\* failureRate() when it returns false and never raises it when it returns
\* true.  At the return step readCount_ already counts this call, so the
\* rate before the call is failureCount_ over readCount_ - 1.
C16_RateMonotone ==
    [][(pc = "return" /\ readCount_ > 1) =>
          LET before == failureRate(failureCount_, readCount_ - 1)
              after  == failureRate(failureCount_', readCount_')
          IN  /\ before.den > 0 /\ after.den > 0
              /\ success => RateLE(after, before)
              /\ ~success => RateLE(before, after)]_vars

C16_Witness ==
    /\ pc = "idle"
    /\ success
    /\ readCount_ = 2
    /\ failureCount_ = 1

\* The trigger as far as it got: output, high, >= 500 ms, low, >= 20 ms, input.
HandshakeStep(k, o) ==
    CASE k = 1 -> o.op = "fsel_out"
      [] k = 2 -> o.op = "write_high"
      [] k = 3 -> o.op = "usleep" /\ o.arg >= 500000
      [] k = 4 -> o.op = "write_low"
      [] k = 5 -> o.op = "usleep" /\ o.arg >= 20000
      [] k = 6 -> o.op = "fsel_in"
      [] OTHER -> FALSE

HandshakePrefix(o) == \A k \in 1..Len(o) : HandshakeStep(k, o[k])

Sampling == {"ack", "discardHigh", "discardLow", "capture"}

\* C17: in every read() the pin is set to output, driven high, held >= 500
\* ms, driven low, held >= 20 ms and set to input, in this order, before the
\* line is sampled; it is not sampled in output mode, and nothing is written
\* once it is an input.
C17_Handshake ==
    /\ HandshakePrefix(ops)
    /\ pc \in {"writeHigh", "holdHigh", "writeLow", "holdLow", "trigger"} =>
          (pinMode = "out" /\ Len(ops) < 6)
    /\ pc \in Sampling \cup {"reconstruct", "parseData", "return"} =>
          (pinMode = "in" /\ Len(ops) = 6)

C17_Witness ==
    /\ pc = "capture"
    /\ i = 40
    /\ pinMode = "in"
    /\ Len(ops) = 6
    /\ ops[3] = Op("usleep", 500000)
    /\ ops[5] = Op("usleep", 20000)

\* One iteration of the capture loop (DHT.cpp:54-58) on [ok, timings, line];
\* after a timeout the loop has returned and nothing more is done.
FreshCaptureStep(st, k, scale) ==
    IF ~st.ok THEN st
    ELSE LET stored == StoreTiming(waitForState(st.line, Expected(k), scale))
         IN  [ok      |-> ~TimedOut(stored, scale),
              timings |-> [st.timings EXCEPT ![k + 1] = stored],
              line    |-> LineAfterWait(st.line, Expected(k), timeoutCycles(scale))]

\* Iterations a .. b-1 of the capture loop (DHT.cpp:53-59), by halves.
RECURSIVE FreshCapture(_, _, _, _)
FreshCapture(st, a, b, scale) ==
    IF b = a + 1 THEN FreshCaptureStep(st, a, scale)
    ELSE LET m == (a + b) \div 2
             firstHalf == FreshCapture(st, a, m, scale)
         IN  IF firstHalf.ok THEN FreshCapture(firstHalf, m, b, scale)
                             ELSE firstHalf

\* The result and the frame bytes of a read() that starts from cleared
\* buffers, as a function of the configuration and of what the device does.
FreshRead(type, scale, s) ==
    LET l0 == LineOf(s, scale)
        tc == timeoutCycles(scale)
        l1 == LineAfterWait(l0, FALSE, AckTimeout)
        l2 == LineAfterWait(l1, TRUE, tc)
        l3 == LineAfterWait(l2, FALSE, tc)
        cap == FreshCapture([ok |-> TRUE, timings |-> Zeros(NumTimings), line |-> l3],
                            0, NumTimings, scale)
        d == reconstructDataFromTimings(cap.timings, Zeros(5), scale)
    IN  IF WaitPolls(l0, FALSE, AckTimeout) = AckTimeout \/ ~cap.ok
        THEN [ok |-> FALSE, data |-> Zeros(5)]
        ELSE [ok |-> parseData(type, d, 0, 0).ok, data |-> d]

\* C18: once reset() has run the timing and byte buffers are all zero, and
\* the return value and the frame bytes of the call are those of a read from
\* cleared buffers: they depend on the configuration and the line alone.
C18_NoCarryOver ==
    /\ pc = "fselOutput" => (timings_ = Zeros(NumTimings) /\ data_ = Zeros(5))
    /\ pc = "return" =>
          LET fresh == FreshRead(type_, clockScale_, sensor)
          IN  success = fresh.ok /\ data_ = fresh.data

C18_Witness ==
    /\ pc = "return"
    /\ readCount_ = 2
    /\ lastGood = <<250, 500>>
    /\ sensor.frame = Ex22Frame
    /\ sensor.cut = FullCut
    /\ data_ = Ex22Frame
    /\ success

\* C19: TypeFromString gives a type for exactly the three names; with any
\* other string configuration fails, no type is produced and no reader is
\* constructed or read.
C19_OnlyNamedTypes ==
    pc # "configure" =>
        IF typeName \in {"DHT11", "DHT22", "AM2302"}
        THEN type_ = typeName
        ELSE pc = "aborted" /\ type_ = "none" /\ readCount_ = 0

\* The device sent a whole frame that the configured type accepts.
GoodFrameSent ==
    /\ sensor.cut = FullCut
    /\ CheckValid(sensor.frame)
    /\ \/ type_ = "DHT11"
       \/ LET d == Decoded(type_, sensor.frame)
          IN  InPercentRange(d[1]) /\ InPercentRange(d[2])

\* C20: a per-read error shows only as read() returning false and in the
\* failure counter, never ends the process, and does not last: a later
\* read() in which the device sends a valid in-range frame returns true with
\* that frame's values.
C20_ErrorsRecoverable ==
    /\ [](pc = "return" /\ err # "none" => ~success)
    /\ [](pc = "aborted" /\ readCount_ > 0 => success /\ err = "none")
    /\ [][(pc = "return" /\ err # "none") =>
             (pc' = "idle" /\ failureCount_' = failureCount_ + 1)]_vars
    /\ [](pc = "return" /\ failureCount_ > 0 /\ GoodFrameSent =>
             success /\ reading = Decoded(type_, sensor.frame))

C20_Witness ==
    /\ pc = "return"
    /\ failureCount_ = 1
    /\ err = "none"
    /\ success
    /\ sensor.frame = Ex22Frame
    /\ reading = <<203, 500>>

InRead == pc \notin {"configure", "idle", "aborted"}

\* C21: every read() call ends with a boolean result whatever the line does:
\* the acknowledgement wait, the two framing waits and each of the at most
\* 80 capture waits end after a bounded number of polls, and a call that was
\* started returns.
C21_ReadTerminates ==
    /\ [][pc = "ack" => count' <= AckTimeout]_vars
    /\ [][(pc = "discardHigh" \/ pc = "discardLow" \/ pc = "capture") =>
             count' <= timeoutCycles(clockScale_)]_vars
    /\ [](i <= NumTimings)
    /\ [](pc = "capture" => i < NumTimings)
    /\ (pc = "reset") ~> (pc = "idle" /\ success \in BOOLEAN)

C21_Witness ==
    /\ pc = "idle"
    /\ readCount_ = 1
    /\ sensor.cut = 43
    /\ i = NumTimings
    /\ timings_[NumTimings - 1] = StoreTiming(TimeoutCycles)
    /\ clockScale_ = 100

\* C22: every wait of a read, the two framing waits included, is bounded by
\* timeoutCycles polls, and a wait that reaches the bound fails the read at
\* once (AckTimeout) before any timing is captured.
C22_FramingTimeoutFails ==
    [][(pc = "ack" \/ pc = "discardHigh" \/ pc = "discardLow") =>
          /\ count' <= timeoutCycles(clockScale_)
          /\ count' = timeoutCycles(clockScale_) =>
                (pc' = "return" /\ ~success' /\ err' = "AckTimeout" /\ i' = 0)]_vars

\* C23: a capture that completes made exactly 80 waits in index order, even
\* indices waiting for high and odd ones for low, and timings[i] is the
\* number of polls wait i took.
C23_CaptureRecordsPolls ==
    /\ [](pc = "reconstruct" => i = NumTimings)
    /\ [][(pc = "capture" /\ pc' # "return") =>
             /\ i' = i + 1
             /\ timings_'[i + 1] =
                   WaitPolls(line, i % 2 = 0, timeoutCycles(clockScale_))
             /\ \A k \in 1..NumTimings : k # i + 1 => timings_'[k] = timings_[k]]_vars

\* The stage a position of read() belongs to.
Stage(p) ==
    CASE p = "reset" -> 1
      [] p \in {"fselOutput", "writeHigh", "holdHigh", "writeLow", "holdLow", "trigger"} -> 2
      [] p \in Sampling -> 3
      [] p = "reconstruct" -> 4
      [] p = "parseData" -> 5
      [] p = "return" -> 6
      [] OTHER -> 0

\* C24: the stages of read() run in the order reset, trigger, capture,
\* decode, validate/interpret, each only if the ones before it succeeded;
\* after a failure in the trigger/capture stage the 5 frame bytes are still 0
\* and the Reading holds nothing of that frame.
C24_StagesInOrder ==
    /\ [][(InRead /\ pc # "return") =>
             \/ Stage(pc') = Stage(pc)
             \/ Stage(pc') = Stage(pc) + 1 /\ err' = "none"
             \/ pc' = "return" /\ ~success' /\ err' # "none"]_vars
    /\ [][(pc = "capture" /\ pc' = "reconstruct") => i' = NumTimings]_vars
    /\ [](err \in {"AckTimeout", "BitTimeout"} =>
             (data_ = Zeros(5) /\ temp_ = 0 /\ humidity_ = 0 /\ ~success))

C24_Witness ==
    /\ pc = "return"
    /\ err = "BitTimeout"
    /\ i > 40
    /\ sensor.frame = OnesFrame
    /\ data_ = Zeros(5)
    /\ lastGood # <<0, 0>>
    /\ reading = <<0, 0>>

\* The timings with every even-indexed (sync) entry replaced by v.
WithSync(timings, v) ==
    [k \in 1..NumTimings |-> IF k % 2 = 1 THEN v ELSE timings[k]]

SyncProbes(scale) == {0, lowHighCutoff(scale) + 1, UInt16 - 1}

\* C25: the decoder is a total function of the 40 odd-indexed timings: it
\* always yields 5 bytes, and changing the even-indexed timings changes none.
C25_DecoderIgnoresSync ==
    pc = "reconstruct" =>
        LET bytes == reconstructDataFromTimings(timings_, data_, clockScale_)
        IN  /\ bytes \in [1..5 -> 0..255]
            /\ \A v \in SyncProbes(clockScale_) :
                  reconstructDataFromTimings(WithSync(timings_, v), data_, clockScale_)
                      = bytes

C25_Witness ==
    /\ pc = "parseData"
    /\ data_ = Ex22Frame
    /\ timings_[17] > lowHighCutoff(clockScale_)
    /\ timings_[2] <= lowHighCutoff(clockScale_)

\* C26: an AM2302 reader and a DHT22 reader fed the same line return the same
\* result, frame bytes and Reading (and so count the same).
C26_AM2302IsDHT22 ==
    /\ pc = "parseData" =>
          parseData("AM2302", data_, temp_, humidity_)
              = parseData("DHT22", data_, temp_, humidity_)
    /\ (pc = "return" /\ IsDHT22) =>
          LET a == FreshRead("AM2302", clockScale_, sensor)
              b == FreshRead("DHT22", clockScale_, sensor)
          IN  a = b /\ success = a.ok /\ data_ = a.data

C26_Witness ==
    /\ pc = "return"
    /\ type_ = "AM2302"
    /\ success
    /\ reading = <<203, 500>>
    /\ readCount_ = 1

\* C27: every poll count a capture wait returns is stored unchanged: a wait
\* that ran to the bound is stored as timeoutCycles, and the stored timing
\* is above lowHighCutoff exactly when the count was.
C27_TimingStoredUnchanged ==
    [][pc = "capture" =>
          /\ timings_'[i + 1] = count'
          /\ count' = timeoutCycles(clockScale_) =>
                timings_'[i + 1] = timeoutCycles(clockScale_)
          /\ (timings_'[i + 1] > lowHighCutoff(clockScale_))
                <=> (count' > lowHighCutoff(clockScale_))]_vars

\* C28: after a read() that returned false, for whatever reason, the stored
\* temperature and humidity are both 0.
C28_FailedReadLeavesZero ==
    (pc \in {"return", "idle"} /\ readCount_ > 0 /\ ~success) =>
        (temp_ = 0 /\ humidity_ = 0)

\* C29: waitForMotion returns true exactly when a sampled level differs from
\* the stored state and then stores that level; when it returns false the
\* stored state is unchanged.  So the states handed to detectedMovement
\* alternate, starting with true.
C29_MovesAlternate ==
    /\ [][(mpc = "compare") =>
             /\ (mpc' = "returned" /\ motionResult') <=> (newState # state_)
             /\ (newState # state_) => state_' = newState
             /\ (newState = state_) => state_' = state_]_vars
    /\ [][(state_' # state_) => (mpc' = "returned" /\ motionResult')]_vars
    /\ [](\A k \in 1..Len(moves) : moves[k] = (k % 2 = 1))

C29_Witness ==
    /\ moves = <<TRUE, FALSE, TRUE>>
    /\ mpc = "loop"
    /\ total > MotionPollMicros

Handled(t) == \E k \in 1..Len(handled) : handled[k] = t

\* C30: init() returns only after a terminal notification was handled, and
\* returns false exactly when a DriverFailed was handled before it returned;
\* failed is never set without done in the same critical section, so after a
\* driver failure init() does not block forever.
C30_InitWaitsForTerminal ==
    /\ [][(ipc' = "returned" /\ ipc # "returned") =>
             /\ \E t \in TerminalTypes : Handled(t)
             /\ (initResult' = FALSE) <=> Handled("DriverFailed")]_vars
    /\ [](lock # "handler" => (failed => done))
    /\ [](failed <=> Handled("DriverFailed"))
    /\ failed ~> (ipc = "returned")

C30_Witness ==
    /\ ipc = "returned"
    /\ initResult = FALSE
    /\ handled = <<"DriverReady", "AllNodesQueried", "DriverFailed">>
    /\ home_id = HomeId

====
